---- MODULE Spec2Model ----
(***************************************************************************)
(* Model of Galvo.py: the single-axis controller GalvoDriver and the axis  *)
(* group controller GalvoDrivers, driving a LabJack backend (updater and   *)
(* streamer) that is an external collaborator.                             *)
(*                                                                         *)
(* Every public method is one atomic action.  The backend is the           *)
(* environment: for each call of go_to it decides which of the backend     *)
(* calls (if any) is hit by a KeyboardInterrupt or fails with an I/O error *)
(* and what the readback dictionary holds.  The variable trace records, in *)
(* program order, the backend calls and the state commits of the method    *)
(* call that just ended, result how it ended and last what was asked; the  *)
(* caller takes the outcome (Return) before it makes its next call.        *)
(*                                                                         *)
(* Position.py (Point) and Move.py (Move, MoveMultiDim) are not part of    *)
(* the sources at hand; they are modelled from the specification           *)
(* (sections 3, 4.1, 4.2, 4.3) over the integers.                          *)
(***************************************************************************)
EXTENDS Integers, Sequences, FiniteSets, TLC

VARIABLES kind, axis, open_labjack, galvos, trace, result, last

vars == <<kind, axis, open_labjack, galvos, trace, result, last>>

-----------------------------------------------------------------------------
(* Bounds of the model *)

\* requested absolute positions lie in 0..MaxPos
MaxPos == 2
\* no move is started once a history holds MaxHist points
MaxHist == 4
\* codes of the DAC lie in 0..CodeMax
CodeMax == 2

-----------------------------------------------------------------------------
(* Position.py, modelled from the specification *)

\* calibration code = CalA * position + CalB, clamped to 0..CodeMax
CalA == 1
CalB == 1
\* the float nan; nan + x = nan
NaN == 999

Clamp(c) == IF c < 0 THEN 0 ELSE IF c > CodeMax THEN CodeMax ELSE c

ToCode(p) == Clamp(CalA * p + CalB)

ToPos(v) == (v - CalB) \div CalA

\* Point(axis, pos)
PointPos(p) == [pos |-> p, voltage |-> ToCode(p)]

\* Point(axis, voltage=v)
PointVolt(v) == [pos |-> ToPos(v), voltage |-> v]

\* Point.__sub__: position-only subtraction
PointSub(a, b) == PointPos(a.pos - b.pos)

\* float addition
FAdd(a, b) == IF a = NaN \/ b = NaN THEN NaN ELSE a + b

-----------------------------------------------------------------------------
(* Move.py, modelled from the specification *)

\* samples per unit of time of the streamer
SampleRate == 2

Abs(n) == IF n < 0 THEN 0 - n ELSE n

CeilDiv(a, b) == (a + b - 1) \div b

\* "" when the planner accepts the input, else the error it raises
MoveError(start, end, speed) ==
    IF speed < 0 THEN "InvalidSpeed"
    ELSE IF start = NaN \/ end = NaN THEN "InvalidPosition"
    ELSE ""

\* Move.t, in whole units of time, rounded up: 0 exactly when the move is degenerate
MoveT(start, end, speed) ==
    IF speed = 0 \/ start = end THEN 0
    ELSE CeilDiv(Abs(end - start), speed)

\* number of samples of a streamed move
MoveSamples(t) == IF t * SampleRate < 2 THEN 2 ELSE t * SampleRate

\* Move.bits: the destination code alone when degenerate, else the linear
\* interpolation, its last sample forced to the destination code
MoveBits(start, end, speed) ==
    LET t == MoveT(start, end, speed)
        n == MoveSamples(t)
    IN  IF t = 0 THEN <<ToCode(end)>>
        ELSE [i \in 1..n |->
                IF i = n THEN ToCode(end)
                ELSE ToCode(start + ((i - 1) * (end - start)) \div (n - 1))]

\* the largest element of a sequence of naturals, 0 for the empty sequence
SeqMax(s) ==
    IF s = <<>> THEN 0
    ELSE CHOOSE m \in {s[i] : i \in 1..Len(s)} : \A i \in 1..Len(s) : s[i] <= m

\* MoveMultiDim.t: the longest per-axis duration
MoveMultiDimT(axs, original_pos, new_abs_pos, speed) ==
    SeqMax([i \in 1..Len(axs) |->
              MoveT(original_pos[axs[i]], new_abs_pos[axs[i]], speed)])

\* MoveMultiDim.bits: per axis, padded with the final code to the common length
MoveMultiDimBits(axs, original_pos, new_abs_pos, speed) ==
    LET t == MoveMultiDimT(axs, original_pos, new_abs_pos, speed)
        n == IF t = 0 THEN 1 ELSE MoveSamples(t)
    IN  [ax \in {axs[i] : i \in 1..Len(axs)} |->
            LET b == MoveBits(original_pos[ax], new_abs_pos[ax], speed)
            IN  [i \in 1..n |-> IF i <= Len(b) THEN b[i] ELSE b[Len(b)]]]

-----------------------------------------------------------------------------
(* Outcomes, trace events and the backend as environment *)

NoDict == <<>>

Returned(pos, t) ==
    [status |-> "returned", exc |-> "", detail |-> "", pos |-> pos, t |-> t]

Raised(exc, detail) ==
    [status |-> "raised", exc |-> exc, detail |-> detail, pos |-> NoDict, t |-> 0]

NoResult == [status |-> "none", exc |-> "", detail |-> "", pos |-> NoDict, t |-> 0]

\* a backend call, made by an object of class owner ("GalvoDriver" or
\* "GalvoDrivers"); arg maps each axis written to the codes written to it
Call(op, owner, arg) == [op |-> op, owner |-> owner, arg |-> arg]

\* installing a new current point in the controller of axis ax
Commit(ax) == [op |-> "_point", owner |-> "GalvoDriver", arg |-> (ax :> <<>>)]

\* assigning val to the attribute voltage of the stored 1D galvo of axis ax
SetAttrVoltage(ax, val) ==
    [op |-> "voltage", owner |-> "GalvoDrivers", arg |-> (ax :> <<val>>)]

\* raising exc to the caller
Raise(exc) == [op |-> "raise", owner |-> exc, arg |-> NoDict]

BackendOps == {"update", "stream_setup", "load_data", "start_stream", "read"}

WriteOps == {"update", "stream_setup", "load_data", "start_stream"}

DacNames == {"DAC0", "DAC1"}

\* the codes the backend can hold
ReadCodes == 0..CodeMax

\* what the updater reads back: one code per DAC register
Readbacks(registers) == [registers -> ReadCodes]

\* the backend call (by its index within one go_to) that does not return, and how
NoFault == [at |-> 0, exc |-> ""]

Faults ==
    {NoFault} \cup
    [at : 1..4, exc : {"KeyboardInterrupt", "IOError"}]

-----------------------------------------------------------------------------
(* class GalvoDriver *)

\* GalvoDriver.pos / _pos getter
Pos(g) == g.point.pos

\* GalvoDriver.origin
Origin(g) == g.origin.pos

\* GalvoDriver.rel_pos, through _rel_point
RelPos(g) == PointSub(g.point, g.origin).pos

\* GalvoDriver.pos_history
PosHistory(g) == [i \in 1..Len(g.hist) |-> g.hist[i].pos]

\* a _point setter that records nothing when the point installed equals the
\* current one
SetPointSkipSame(g, val) ==
    IF val = g.point THEN g
    ELSE [g EXCEPT !.hist = Append(@, g.point), !.point = val]

\* a _point setter that keeps the history at its length by dropping the oldest point
SetPointRolling(g, val) ==
    [g EXCEPT !.hist = Tail(Append(@, g.point)), !.point = val]

\* a _point setter that overwrites the Point object in place, so that an origin
\* set to the current point moves with it
SetPointInPlace(g, val) ==
    [g EXCEPT !.hist = Append(@, g.point), !.point = val,
              !.origin = IF g.origin = g.point THEN val ELSE @]

\* _point setter: append a copy of the current point, then install val
SetPoint(g, val) == [g EXCEPT !.hist = Append(@, g.point), !.point = val]

\* _pos setter
SetPos(g, val) == SetPoint(g, PointPos(val))

\* _voltage setter
SetVoltage(g, val) == SetPoint(g, PointVolt(val))

\* a set_origin that takes the argument 0 for no argument
SetOriginFalsy(g, orig) ==
    IF orig = <<>> \/ orig = <<0>> THEN [g EXCEPT !.origin = g.point]
    ELSE [g EXCEPT !.origin = PointPos(orig[1])]

\* a set_origin that, given no argument, rebuilds the origin from the code of
\* the current point
SetOriginFromCode(g, orig) ==
    IF orig = <<>> THEN [g EXCEPT !.origin = PointVolt(g.point.voltage)]
    ELSE [g EXCEPT !.origin = PointPos(orig[1])]

\* set_origin(orig): orig is <<>> for no argument, <<o>> for the argument o
SetOrigin(g, orig) ==
    IF orig = <<>> THEN [g EXCEPT !.origin = g.point]
    ELSE [g EXCEPT !.origin = PointPos(orig[1])]

\* reset_origin()
ResetOrigin(g) == SetOrigin(g, <<0>>)

\* backend calls that stream whenever a speed is given, also for a move that
\* takes no time
DriverPlanStreamOnSpeed(g, target, speed) ==
    IF speed = 0
    THEN <<Call("update", "GalvoDriver",
                (g.axis :> <<MoveBits(Pos(g), target, speed)[1]>>))>>
    ELSE <<Call("stream_setup", "GalvoDriver", NoDict),
           Call("load_data", "GalvoDriver", (g.axis :> MoveBits(Pos(g), target, speed))),
           Call("start_stream", "GalvoDriver", NoDict),
           Call("read", "GalvoDriver", NoDict)>>

\* the backend calls of one go_to, in program order, were none of them to fail
DriverPlan(g, target, speed) ==
    LET bits == MoveBits(Pos(g), target, speed)
    IN  IF speed = 0 \/ MoveT(Pos(g), target, speed) = 0
        THEN <<Call("update", "GalvoDriver", (g.axis :> <<bits[Len(bits)]>>))>>
        ELSE <<Call("stream_setup", "GalvoDriver", NoDict),
               Call("load_data", "GalvoDriver", (g.axis :> bits)),
               Call("start_stream", "GalvoDriver", NoDict),
               Call("read", "GalvoDriver", NoDict)>>

\* an except clause that commits the destination instead of the readback
DriverInterruptedAtDestination(g, target, made, V) ==
    [g      |-> SetPos(g, target),
     trace  |-> made \o <<Call("read", "GalvoDriver", NoDict), Commit(g.axis),
                          Raise("KeyboardInterrupt")>>,
     result |-> Raised("KeyboardInterrupt", "Moving stopped by user!")]

\* an except clause that writes the destination again before it gives up
DriverInterruptedRetry(g, target, made, V) ==
    [g      |-> SetVoltage(g, V[g.dac_name]),
     trace  |-> made \o <<Call("read", "GalvoDriver", NoDict),
                          Call("update", "GalvoDriver", (g.axis :> <<ToCode(target)>>)),
                          Commit(g.axis), Raise("KeyboardInterrupt")>>,
     result |-> Raised("KeyboardInterrupt", "Moving stopped by user!")]

\* go_to, the except KeyboardInterrupt clause: made are the backend calls begun
\* so far (the last one was interrupted before it assigned actual_V), V is what
\* updater.read() returns
DriverInterrupted(g, target, made, V) ==
    [g      |-> SetVoltage(g, V[g.dac_name]),
     trace  |-> made \o <<Call("read", "GalvoDriver", NoDict), Commit(g.axis),
                          Raise("KeyboardInterrupt")>>,
     result |-> Raised("KeyboardInterrupt", "Moving stopped by user!")]

\* go_to when a backend call raises anything else: no except clause matches, and
\* the finally clause reads actual_V, which was never assigned
DriverFailed(g, made, exc) ==
    [g      |-> g,
     trace  |-> made \o <<Raise("UnboundLocalError")>>,
     result |-> Raised("UnboundLocalError", "actual_V")]

\* go_to, the else clause and the return: every backend call returned, V is the
\* readback that update() or read() returned, actual_t what start_stream returned
DriverDone(g, target, plan, V, actual_t) ==
    [g      |-> SetPos(g, target),
     trace  |-> plan \o <<Commit(g.axis)>>,
     result |-> Returned((g.axis :> PointVolt(V[g.dac_name]).pos), actual_t)]

\* go_to without a backend
DriverNoBackend(g, target) ==
    [g      |-> SetPos(g, target),
     trace  |-> <<Commit(g.axis)>>,
     result |-> Returned((g.axis :> PointPos(Pos(SetPos(g, target))).pos), 0)]

\* go_to, the try statement: the backend calls of plan are made in order; the
\* call that fault names, if any, does not return
DriverTry(g, target, plan, t, fault, V) ==
    IF fault.at \notin 1..Len(plan) THEN DriverDone(g, target, plan, V, t)
    ELSE IF fault.exc = "KeyboardInterrupt"
    THEN DriverInterrupted(g, target, SubSeq(plan, 1, fault.at), V)
    ELSE DriverFailed(g, SubSeq(plan, 1, fault.at), fault.exc)

\* the branch of go_to taken with a backend attached: actual_t is 0 after an
\* update, and what start_stream(move.t) returned, streamed, after a stream
DriverBackend(g, target, speed, fault, V, streamed) ==
    DriverTry(g, target, DriverPlan(g, target, speed),
              IF speed = 0 \/ MoveT(Pos(g), target, speed) = 0 THEN 0 ELSE streamed,
              fault, V)

\* a go_to that takes new_pos as an absolute position
TargetAbsolute(g, new_pos) == new_pos

\* go_to: new_pos = new_pos + self.origin
Target(g, new_pos) == FAdd(new_pos, Origin(g))

\* a go_to that opens the stream before it plans the move
DriverGoToLateCheck(g, new_pos, speed, fault, V, streamed) ==
    IF MoveError(Pos(g), Target(g, new_pos), speed) # ""
    THEN [g      |-> g,
          trace  |-> IF g.open_labjack
                     THEN <<Call("stream_setup", "GalvoDriver", NoDict),
                            Raise(MoveError(Pos(g), Target(g, new_pos), speed))>>
                     ELSE <<Raise(MoveError(Pos(g), Target(g, new_pos), speed))>>,
          result |-> Raised(MoveError(Pos(g), Target(g, new_pos), speed), g.axis)]
    ELSE IF g.open_labjack THEN DriverBackend(g, Target(g, new_pos), speed, fault, V, streamed)
    ELSE DriverNoBackend(g, Target(g, new_pos))

\* GalvoDriver.go_to(new_pos, speed): the controller afterwards, the trace of
\* the call and its outcome
DriverGoTo(g, new_pos, speed, fault, V, streamed) ==
    IF MoveError(Pos(g), Target(g, new_pos), speed) # ""
    THEN [g      |-> g,
          trace  |-> <<Raise(MoveError(Pos(g), Target(g, new_pos), speed))>>,
          result |-> Raised(MoveError(Pos(g), Target(g, new_pos), speed), g.axis)]
    ELSE IF g.open_labjack THEN DriverBackend(g, Target(g, new_pos), speed, fault, V, streamed)
    ELSE DriverNoBackend(g, Target(g, new_pos))

\* a reset_pos that goes to the absolute position 0
DriverResetPosAbsolute(g, fault, V) == DriverGoTo(g, 0 - Origin(g), 0, fault, V, 0)

\* GalvoDriver.reset_pos(): go_to(0, 0), which at speed 0 starts no stream
DriverResetPos(g, fault, V) == DriverGoTo(g, 0, 0, fault, V, 0)

\* GalvoDriver.__init__(axis, dac_name, pos_init, open_labjack): the attributes
\* before the constructor's own set_origin and go_to
DriverNew(ax, dac_name, pos_init, lj) ==
    [axis |-> ax, dac_name |-> dac_name, open_labjack |-> lj,
     point |-> PointPos(pos_init), hist |-> <<PointPos(pos_init)>>,
     origin |-> PointPos(pos_init)]

\* the axes a galvo mirror can have
AxisNames == {"x", "z"}

\* GalvoDriver.__init__: any other axis raises ValueError before an attribute
\* is set; else set_origin(pos_init), then go_to(pos_init, 0)
DriverInit(ax, dac_name, pos_init, lj, fault, V) ==
    IF ax \notin AxisNames
    THEN [g |-> NoDict, trace |-> <<Raise("ValueError")>>,
          result |-> Raised("ValueError", ax)]
    ELSE DriverGoTo(SetOrigin(DriverNew(ax, dac_name, pos_init, lj), <<pos_init>>),
                    pos_init, 0, fault, V, 0)

-----------------------------------------------------------------------------
(* class GalvoDrivers *)

\* GalvoDrivers.pos
DriversPos(gs) == [ax \in DOMAIN gs |-> Pos(gs[ax])]

\* GalvoDrivers.rel_pos
DriversRelPos(gs) == [ax \in DOMAIN gs |-> RelPos(gs[ax])]

\* GalvoDrivers.origin
DriversOrigin(gs) == [ax \in DOMAIN gs |-> Origin(gs[ax])]

\* go_to, one turn of the loop over self.axis: r is what the go_to of the
\* stored 1D galvo of axis ax gave
DriversLoopTake(st, ax, r) ==
    IF r.result.status = "raised"
    THEN [st EXCEPT !.galvos[ax] = r.g, !.trace = @ \o r.trace, !.result = r.result]
    ELSE [st EXCEPT !.galvos[ax] = r.g, !.trace = @ \o r.trace,
                    !.new_abs_pos = (ax :> r.result.pos[ax]) @@ @]

\* go_to, one turn of the loop over self.axis, for the axis ax: the stored 1D
\* galvo computes and takes its new absolute position.  A missing new_pos[ax]
\* or a rejected move raises, which ends the loop with the galvos of the
\* earlier axes already moved; st is the state of the loop before the turn.
DriversLoopStep(st, ax, new_pos, speed, V) ==
    IF st.result.status = "raised" THEN st
    ELSE IF ax \notin DOMAIN new_pos
    THEN [st EXCEPT !.trace = @ \o <<Raise("KeyError")>>,
                    !.result = Raised("KeyError", ax)]
    ELSE DriversLoopTake(st, ax,
                         DriverGoTo(st.galvos[ax], new_pos[ax], speed, NoFault, V, 0))

\* go_to, the loop over self.axis
DriversLoop(gs, axs, new_pos, speed, V) ==
    LET turn[i \in 0..Len(axs)] ==
            IF i = 0
            THEN [galvos |-> gs, new_abs_pos |-> NoDict, trace |-> <<>>,
                  result |-> NoResult]
            ELSE DriversLoopStep(turn[i - 1], axs[i], new_pos, speed, V)
    IN  turn[Len(axs)]

\* the backend calls of one group go_to, in program order, were none of them to fail
DriversPlan(axs, original_pos, new_abs_pos, speed) ==
    LET bits == MoveMultiDimBits(axs, original_pos, new_abs_pos, speed)
    IN  IF speed = 0 \/ MoveMultiDimT(axs, original_pos, new_abs_pos, speed) = 0
        THEN <<Call("update", "GalvoDrivers",
                    [ax \in DOMAIN bits |-> <<bits[ax][Len(bits[ax])]>>])>>
        ELSE <<Call("stream_setup", "GalvoDrivers", NoDict),
               Call("load_data", "GalvoDrivers", bits),
               Call("start_stream", "GalvoDrivers", NoDict),
               Call("read", "GalvoDrivers", NoDict)>>

\* go_to, the except KeyboardInterrupt clause: the readback of each axis is
\* assigned to the attribute voltage of its stored 1D galvo.  GalvoDriver has
\* no such property (its setter is _voltage), so the assignment creates a plain
\* attribute that nothing reads, and the galvo's point and history stay.
DriversInterrupted(gs, axs, tr, made, V) ==
    [galvos |-> gs,
     trace  |-> tr \o made \o <<Call("read", "GalvoDrivers", NoDict)>>
                \o [i \in 1..Len(axs) |-> SetAttrVoltage(axs[i], V[gs[axs[i]].dac_name])]
                \o <<Raise("KeyboardInterrupt")>>,
     result |-> Raised("KeyboardInterrupt", "Moving stopped by user!")]

\* go_to when a backend call raises anything else: the finally clause reads
\* actual_V, which was never assigned
DriversFailed(gs, tr, made, exc) ==
    [galvos |-> gs,
     trace  |-> tr \o made \o <<Raise("UnboundLocalError")>>,
     result |-> Raised("UnboundLocalError", "actual_V")]

\* go_to, every backend call returned: the positions returned are those of the readback
DriversDone(gs, tr, plan, V, actual_t) ==
    [galvos |-> gs,
     trace  |-> tr \o plan,
     result |-> Returned([ax \in DOMAIN gs |-> PointVolt(V[gs[ax].dac_name]).pos], actual_t)]

\* go_to without a backend: the positions returned are built from new_pos
DriversNoBackend(gs, tr, new_pos) ==
    [galvos |-> gs,
     trace  |-> tr,
     result |-> Returned([ax \in DOMAIN gs |-> PointPos(new_pos[ax]).pos], 0)]

\* go_to, the try statement: the backend calls of plan are made in order; the
\* call that fault names, if any, does not return
DriversTry(gs, axs, tr, plan, t, fault, V) ==
    IF fault.at \notin 1..Len(plan) THEN DriversDone(gs, tr, plan, V, t)
    ELSE IF fault.exc = "KeyboardInterrupt"
    THEN DriversInterrupted(gs, axs, tr, SubSeq(plan, 1, fault.at), V)
    ELSE DriversFailed(gs, tr, SubSeq(plan, 1, fault.at), fault.exc)

\* go_to after the loop over self.axis, which left loop: actual_t is 0 after an
\* update, and what start_stream(move.t) returned, streamed, after a stream
DriversAfterLoop(axs, lj, speed, new_pos, fault, V, streamed, original_pos, loop) ==
    IF loop.result.status = "raised"
    THEN [galvos |-> loop.galvos, trace |-> loop.trace, result |-> loop.result]
    ELSE IF lj
    THEN DriversTry(loop.galvos, axs, loop.trace,
                    DriversPlan(axs, original_pos, loop.new_abs_pos, speed),
                    IF speed = 0
                       \/ MoveMultiDimT(axs, original_pos, loop.new_abs_pos, speed) = 0
                    THEN 0 ELSE streamed,
                    fault, V)
    ELSE DriversNoBackend(loop.galvos, loop.trace, new_pos)

\* GalvoDrivers.go_to(speed, **new_pos)
DriversGoTo(gs, axs, lj, speed, new_pos, fault, V, streamed) ==
    DriversAfterLoop(axs, lj, speed, new_pos, fault, V, streamed, DriversPos(gs),
                     DriversLoop(gs, axs, new_pos, speed, V))

\* GalvoDrivers.reset_pos()
DriversResetPos(gs, axs, lj, fault, V) ==
    DriversGoTo(gs, axs, lj, 0, [ax \in DOMAIN gs |-> 0], fault, V, 0)

\* GalvoDrivers.set_origin(**orig)
DriversSetOrigin(gs, orig) ==
    [ax \in DOMAIN gs |->
        IF DOMAIN orig = {} THEN SetOrigin(gs[ax], <<>>)
        ELSE IF ax \in DOMAIN orig THEN SetOrigin(gs[ax], <<orig[ax]>>)
        ELSE gs[ax]]

\* GalvoDrivers.reset_origin()
DriversResetOrigin(gs) == [ax \in DOMAIN gs |-> SetOrigin(gs[ax], <<0>>)]

\* stored 1D galvos that are handed the backend of the group
ChildOpenLabjackShared(lj) == lj

\* the open_labjack handed to each stored 1D galvo by GalvoDrivers.__init__
ChildOpenLabjack(lj) == FALSE

\* GalvoDrivers.__init__, the check of the configuration: the first declared
\* axis without an entry in dac_name or in pos_init, as a sequence of at most one
DriversMissing(axs, dac_name, pos_init) ==
    LET bad == {i \in 1..Len(axs) :
                  axs[i] \notin DOMAIN dac_name \/ axs[i] \notin DOMAIN pos_init}
    IN  IF bad = {} THEN <<>>
        ELSE <<axs[CHOOSE i \in bad : \A j \in bad : i <= j]>>

\* GalvoDrivers.__init__, one turn of the loop that builds the stored 1D galvos:
\* r is what the constructor of the galvo of axis ax gave, st the loop so far
DriversNewTake(st, ax, r) ==
    IF st.result.status = "raised" THEN st
    ELSE IF r.result.status = "raised"
    THEN [st EXCEPT !.trace = @ \o r.trace, !.result = r.result]
    ELSE [st EXCEPT !.galvos = (ax :> r.g) @@ @, !.trace = @ \o r.trace]

\* GalvoDrivers.__init__, the stored 1D galvos: each is constructed, with its own
\* set_origin and go_to, in the order of self.axis; a constructor that raises
\* ends the loop
DriversNew(axs, dac_name, pos_init, lj, V) ==
    LET turn[i \in 0..Len(axs)] ==
            IF i = 0
            THEN [galvos |-> NoDict, trace |-> <<>>, result |-> NoResult]
            ELSE DriversNewTake(turn[i - 1], axs[i],
                                DriverInit(axs[i], dac_name[axs[i]], pos_init[axs[i]],
                                           ChildOpenLabjack(lj), NoFault, V))
    IN  turn[Len(axs)]

\* the outcome r of a call, after the trace tr of what came before it
After(tr, r) == [r EXCEPT !.trace = tr \o @]

\* GalvoDrivers.__init__ after the stored 1D galvos were built, which left new:
\* go_to(**pos_init, speed=0)
DriversInitGoTo(new, axs, lj, pos_init, fault, V) ==
    IF new.result.status = "raised" THEN new
    ELSE After(new.trace, DriversGoTo(new.galvos, axs, lj, 0, pos_init, fault, V, 0))

\* a constructor that checks the configuration of each axis only when it comes
\* to build the stored 1D galvo of that axis
DriversInitLateCheck(axs, dac_name, pos_init, lj, fault, V) ==
    IF DriversMissing(axs, dac_name, pos_init) # <<>>
    THEN After(DriversNew(SubSeq(axs, 1,
                                 (CHOOSE i \in 1..Len(axs) :
                                    axs[i] = DriversMissing(axs, dac_name, pos_init)[1])
                                 - 1),
                          dac_name, pos_init, lj, V).trace,
               [galvos |-> NoDict, trace |-> <<Raise("KeyError")>>,
                result |-> Raised("KeyError",
                                  DriversMissing(axs, dac_name, pos_init)[1])])
    ELSE DriversInitGoTo(DriversNew(axs, dac_name, pos_init, lj, V), axs, lj,
                         pos_init, fault, V)

\* GalvoDrivers.__init__(axis, dac_name, pos_init, open_labjack)
DriversInit(axs, dac_name, pos_init, lj, fault, V) ==
    IF DriversMissing(axs, dac_name, pos_init) # <<>>
    THEN [galvos |-> NoDict, trace |-> <<Raise("KeyError")>>,
          result |-> Raised("KeyError", DriversMissing(axs, dac_name, pos_init)[1])]
    ELSE DriversInitGoTo(DriversNew(axs, dac_name, pos_init, lj, V), axs, lj,
                         pos_init, fault, V)

-----------------------------------------------------------------------------
(* The state machine *)

Speeds == {-1, 0, 1}

\* the absolute positions asked for
Positions == 0..MaxPos

\* the initial positions a controller is constructed with
InitPositions == {0, 1}

\* the origins set_origin is given
OriginInputs == {0, 1}

\* the axis a single controller is constructed for
AxisInputs == {"x", "y"}

\* the axes a group is constructed for
GroupAxisInputs == {<<"x", "z">>, <<"x", "y">>}

\* keyword arguments: one value of S for each of some of the axes
Kwargs(S) == UNION {[D -> S] : D \in SUBSET AxisNames}

\* mappings given to the constructor of a group over the axes axs: one value of
\* S for each of some of them
ConfigInputs(axs, S) ==
    UNION {[D -> S] : D \in SUBSET {axs[i] : i \in 1..Len(axs)}}

\* the DAC names given to the constructor of a group over the axes axs
DacNameInputs(axs) ==
    {[ax \in D |-> IF ax = "x" THEN "DAC0" ELSE "DAC1"] :
        D \in SUBSET {axs[i] : i \in 1..Len(axs)}}

\* the number of backend calls the go_to of a constructor makes, were none to
\* fail: one update, when the constructor comes to its go_to with a backend
ConstructPlanLen(axs, dac_name, pos_init, lj) ==
    IF /\ lj
       /\ DriversMissing(axs, dac_name, pos_init) = <<>>
       /\ \A i \in 1..Len(axs) : axs[i] \in AxisNames
    THEN 1 ELSE 0

\* relative positions asked of the controller g: those that lead to a position
\* in Positions, and nan
NewPosInputs(g) == {p - Origin(g) : p \in Positions} \cup {NaN}

GroupNewPosInputs ==
    {np \in Kwargs({p - o : p \in Positions, o \in Positions} \cup {NaN}) :
        \A ax \in DOMAIN np : np[ax] \in NewPosInputs(galvos[ax])}

\* the registers of the updater: the DACs of the axes driven
Registers(gs) == {gs[ax].dac_name : ax \in DOMAIN gs}

\* the number of backend calls the go_to asked for would make, were none to fail
PlanLen(new_pos, speed) ==
    LET g == galvos["x"]
    IN  IF ~g.open_labjack \/ MoveError(Pos(g), Target(g, new_pos), speed) # "" THEN 0
        ELSE Len(DriverPlan(g, Target(g, new_pos), speed))

LoopPlanLen(loop, speed) ==
    IF loop.result.status = "raised" THEN 0
    ELSE Len(DriversPlan(axis, DriversPos(galvos), loop.new_abs_pos, speed))

GroupPlanLen(new_pos, speed) ==
    IF ~open_labjack THEN 0
    ELSE LoopPlanLen(DriversLoop(galvos, axis, new_pos, speed, [d \in DacNames |-> 0]),
                     speed)

\* the faults that can strike a go_to making n backend calls
FaultInputs(n) == {f \in Faults : f.at <= n}

\* what start_stream may return: the duration asked for, or another
StreamTimes == {1, 7}

\* what start_stream may return to a go_to making n backend calls, struck by
\* fault; a go_to in which start_stream does not return is given 0
StreamTimeInputs(n, fault) ==
    IF n = 4 /\ fault.at \in {0, 4} THEN StreamTimes ELSE {0}

\* what the backend may read back to a go_to making n backend calls, struck by
\* fault; a go_to that reads nothing back is given zeros
ReadbackInputs(registers, n, fault) ==
    IF n = 0 \/ fault.exc = "IOError" THEN {[d \in registers |-> 0]}
    ELSE Readbacks(registers)

\* the caller holds no outcome of an earlier call
Idle == result = NoResult

MayMove == \A ax \in DOMAIN galvos : Len(galvos[ax].hist) < MaxHist

\* the call that just ended: the method, its arguments, and what the backend
\* did during it (the fault that struck, the readback it held)
Last(op, new_pos, speed, fault, V) ==
    [op |-> op, new_pos |-> new_pos, speed |-> speed, fault |-> fault, V |-> V]

NoLast == Last("", NoDict, 0, NoFault, NoDict)

Init ==
    /\ kind = "none"
    /\ axis = <<>>
    /\ open_labjack = FALSE
    /\ galvos = NoDict
    /\ trace = <<>>
    /\ result = NoResult
    /\ last = NoLast

\* the outcome r of a method of the single controller, as that of a group of one
OfDriver(r) == [galvos |-> ("x" :> r.g), trace |-> r.trace, result |-> r.result]

\* a method that returns nothing: the value go_to returned to it is dropped
Dropped(r) ==
    [r EXCEPT !.result = IF @.status = "returned" THEN Returned(NoDict, 0) ELSE @]

\* the call lst ends with the outcome r
Ends(r, lst) ==
    /\ galvos' = r.galvos
    /\ trace' = r.trace
    /\ result' = r.result
    /\ last' = lst

\* the constructor call lst ends with the outcome r: the object exists, as a
\* controller of kind k over the axes axs, unless the constructor raised
Constructed(r, k, axs, lj, lst) ==
    /\ kind' = IF r.result.status = "returned" THEN k ELSE "none"
    /\ axis' = IF r.result.status = "returned" THEN axs ELSE <<>>
    /\ open_labjack' = (r.result.status = "returned" /\ lj)
    /\ Ends(IF r.result.status = "returned" THEN r ELSE [r EXCEPT !.galvos = NoDict],
            lst)

\* driver = GalvoDriver(ax, "DAC0", pos_init, open_labjack), the backend answering
Construct ==
    /\ kind = "none"
    /\ Idle
    /\ \E ax \in AxisInputs, pos_init \in InitPositions, lj \in BOOLEAN :
       \E fault \in FaultInputs(ConstructPlanLen(<<ax>>, (ax :> "DAC0"),
                                                 (ax :> pos_init), lj)) :
       \E V \in ReadbackInputs({"DAC0"},
                                ConstructPlanLen(<<ax>>, (ax :> "DAC0"),
                                                 (ax :> pos_init), lj), fault) :
         Constructed(Dropped(OfDriver(DriverInit(ax, "DAC0", pos_init, lj, fault, V))),
                     "single", <<ax>>, lj,
                     Last("__init__", (ax :> pos_init), 0, fault, V))

\* drivers = GalvoDrivers(axs, dac_name, pos_init, open_labjack)
GroupConstruct ==
    /\ kind = "none"
    /\ Idle
    /\ \E axs \in GroupAxisInputs, lj \in BOOLEAN :
       \E dac_name \in DacNameInputs(axs), pos_init \in ConfigInputs(axs, InitPositions) :
       \E fault \in FaultInputs(ConstructPlanLen(axs, dac_name, pos_init, lj)) :
       \E V \in ReadbackInputs(DacNames, ConstructPlanLen(axs, dac_name, pos_init, lj),
                                fault) :
         Constructed(Dropped(DriversInit(axs, dac_name, pos_init, lj, fault, V)),
                     "group", axs, lj,
                     Last("__init__", pos_init, 0, fault, V)
                         @@ [dac_name |-> dac_name, axis |-> axs])

\* driver.go_to(new_pos, speed)
GoTo ==
    /\ kind = "single"
    /\ Idle
    /\ MayMove
    /\ \E new_pos \in NewPosInputs(galvos["x"]), speed \in Speeds :
       \E fault \in FaultInputs(PlanLen(new_pos, speed)) :
       \E V \in ReadbackInputs({"DAC0"}, PlanLen(new_pos, speed), fault) :
       \E streamed \in StreamTimeInputs(PlanLen(new_pos, speed), fault) :
         Ends(OfDriver(DriverGoTo(galvos["x"], new_pos, speed, fault, V, streamed)),
              Last("go_to", ("x" :> new_pos), speed, fault, V)
                  @@ [streamed |-> streamed])
    /\ UNCHANGED <<kind, axis, open_labjack>>

\* driver.reset_pos()
ResetPos ==
    /\ kind = "single"
    /\ Idle
    /\ MayMove
    /\ \E fault \in FaultInputs(PlanLen(0, 0)) :
       \E V \in ReadbackInputs({"DAC0"}, PlanLen(0, 0), fault) :
         Ends(Dropped(OfDriver(DriverResetPos(galvos["x"], fault, V))),
              Last("reset_pos", NoDict, 0, fault, V))
    /\ UNCHANGED <<kind, axis, open_labjack>>

\* driver.set_origin() and driver.set_origin(orig)
SetOriginCall ==
    /\ kind = "single"
    /\ Idle
    /\ \E orig \in {<<>>} \cup {<<o>> : o \in OriginInputs} :
         /\ galvos' = ("x" :> SetOrigin(galvos["x"], orig))
         /\ last' = Last("set_origin", IF orig = <<>> THEN NoDict ELSE ("x" :> orig[1]),
                         0, NoFault, NoDict)
    /\ trace' = <<>>
    /\ result' = Returned(NoDict, 0)
    /\ UNCHANGED <<kind, axis, open_labjack>>

\* driver.reset_origin()
ResetOriginCall ==
    /\ kind = "single"
    /\ Idle
    /\ galvos' = ("x" :> ResetOrigin(galvos["x"]))
    /\ last' = Last("reset_origin", NoDict, 0, NoFault, NoDict)
    /\ trace' = <<>>
    /\ result' = Returned(NoDict, 0)
    /\ UNCHANGED <<kind, axis, open_labjack>>

\* drivers.go_to(speed, **new_pos)
GroupGoTo ==
    /\ kind = "group"
    /\ Idle
    /\ MayMove
    /\ \E new_pos \in GroupNewPosInputs, speed \in Speeds :
       \E fault \in FaultInputs(GroupPlanLen(new_pos, speed)) :
       \E V \in ReadbackInputs(DacNames, GroupPlanLen(new_pos, speed), fault) :
       \E streamed \in StreamTimeInputs(GroupPlanLen(new_pos, speed), fault) :
         Ends(DriversGoTo(galvos, axis, open_labjack, speed, new_pos, fault, V, streamed),
              Last("go_to", new_pos, speed, fault, V) @@ [streamed |-> streamed])
    /\ UNCHANGED <<kind, axis, open_labjack>>

\* drivers.reset_pos()
GroupResetPos ==
    /\ kind = "group"
    /\ Idle
    /\ MayMove
    /\ \E fault \in FaultInputs(GroupPlanLen([ax \in AxisNames |-> 0], 0)) :
       \E V \in ReadbackInputs(DacNames, GroupPlanLen([ax \in AxisNames |-> 0], 0), fault) :
         Ends(Dropped(DriversResetPos(galvos, axis, open_labjack, fault, V)),
              Last("reset_pos", NoDict, 0, fault, V))
    /\ UNCHANGED <<kind, axis, open_labjack>>

\* drivers.set_origin(**orig)
GroupSetOriginCall ==
    /\ kind = "group"
    /\ Idle
    /\ \E orig \in Kwargs(OriginInputs) :
         /\ galvos' = DriversSetOrigin(galvos, orig)
         /\ last' = Last("set_origin", orig, 0, NoFault, NoDict)
    /\ trace' = <<>>
    /\ result' = Returned(NoDict, 0)
    /\ UNCHANGED <<kind, axis, open_labjack>>

\* drivers.reset_origin()
GroupResetOriginCall ==
    /\ kind = "group"
    /\ Idle
    /\ galvos' = DriversResetOrigin(galvos)
    /\ last' = Last("reset_origin", NoDict, 0, NoFault, NoDict)
    /\ trace' = <<>>
    /\ result' = Returned(NoDict, 0)
    /\ UNCHANGED <<kind, axis, open_labjack>>

\* the caller takes the outcome of the call that ended
Return ==
    /\ ~Idle
    /\ result' = NoResult
    /\ trace' = <<>>
    /\ last' = NoLast
    /\ UNCHANGED <<kind, axis, open_labjack, galvos>>

Next ==
    \/ Construct
    \/ GroupConstruct
    \/ GoTo
    \/ ResetPos
    \/ SetOriginCall
    \/ ResetOriginCall
    \/ GroupGoTo
    \/ GroupResetPos
    \/ GroupSetOriginCall
    \/ GroupResetOriginCall
    \/ Return

Spec == Init /\ [][Next]_vars

-----------------------------------------------------------------------------
(* The claims *)

\* the call that just ended was a go_to, direct or through reset_pos
InGoTo == last.op \in {"go_to", "reset_pos"}

\* a KeyboardInterrupt struck one of its backend calls
Interrupted == InGoTo /\ last.fault.exc = "KeyboardInterrupt"

\* the position the backend read back for the axis ax
ReadbackPoint(ax) == PointVolt(last.V[galvos[ax].dac_name])

\* the indices of the trace that hold one of the operations ops
Where(ops) == {i \in 1..Len(trace) : trace[i].op \in ops}

AxisSet == {axis[i] : i \in 1..Len(axis)}

\* C1: when a KeyboardInterrupt strikes a backend call of go_to on a single-axis
\* controller, go_to raises KeyboardInterrupt to its caller and the current
\* point is the Point built from the readback of the controller's DAC.
C1_InterruptCommitsReadback ==
    (kind = "single" /\ Interrupted) =>
        /\ result.status = "raised"
        /\ result.exc = "KeyboardInterrupt"
        /\ galvos["x"].point = ReadbackPoint("x")

\* an interrupted streaming move whose readback is not the destination
C1_Witness ==
    /\ kind = "single"
    /\ last.op = "go_to"
    /\ Interrupted
    /\ trace[last.fault.at].op = "start_stream"
    /\ ReadbackPoint("x") # PointPos(last.new_pos["x"] + Origin(galvos["x"]))
    /\ galvos["x"].point = ReadbackPoint("x")

\* C2: after an interrupted go_to of the group, the position of every stored
\* 1D galvo is the position of the readback of its DAC.
C2_GroupInterruptCommitsReadback ==
    (kind = "group" /\ Interrupted) =>
        \A ax \in DOMAIN galvos : Pos(galvos[ax]) = ReadbackPoint(ax).pos

\* C3: when a backend call of go_to fails with an error other than
\* KeyboardInterrupt, the caller of go_to observes that error.
C3_BackendErrorPropagates ==
    (InGoTo /\ last.fault.exc = "IOError") =>
        (result.status = "raised" /\ result.exc = "IOError")

\* C4: a go_to of the group that fails with a KeyError for a missing axis or
\* with a planner error leaves every stored 1D galvo as it was.
C4_GroupGoToAllOrNothing ==
    [][(/\ kind = "group"
        /\ last'.op = "go_to"
        /\ result'.status = "raised"
        /\ result'.exc \in {"KeyError", "InvalidSpeed", "InvalidPosition"})
       => galvos' = galvos]_vars

\* C5: a go_to that returns appends exactly the point held before the call to
\* the history of every controller it moves.
C5_CompletedGoToAppendsPrevious ==
    [][(InGoTo' /\ result'.status = "returned")
       => \A ax \in DOMAIN galvos :
            galvos'[ax].hist = Append(galvos[ax].hist, galvos[ax].point)]_vars

\* a returned group move with a backend that left an axis where it was
C5_Witness ==
    /\ kind = "group"
    /\ open_labjack
    /\ last.op = "go_to"
    /\ result.status = "returned"
    /\ \E ax \in DOMAIN galvos :
         galvos[ax].hist[Len(galvos[ax].hist)] = galvos[ax].point
    /\ \E ax \in DOMAIN galvos :
         galvos[ax].hist[Len(galvos[ax].hist)] # galvos[ax].point

\* C6: over every public operation the history before is a prefix of the
\* history after; it grows by at most the point held before, and it grows by
\* that point whenever the current point changes.
C6_HistoryAppendOnly ==
    [][\A ax \in DOMAIN galvos \cap DOMAIN galvos' :
         /\ \/ galvos'[ax].hist = galvos[ax].hist
            \/ galvos'[ax].hist = Append(galvos[ax].hist, galvos[ax].point)
         /\ galvos'[ax].point # galvos[ax].point
              => galvos'[ax].hist = Append(galvos[ax].hist, galvos[ax].point)]_vars

\* an interrupted move that changed the point of a history already grown
C6_Witness ==
    /\ kind = "single"
    /\ Interrupted
    /\ Len(galvos["x"].hist) = MaxHist
    /\ galvos["x"].hist[MaxHist] # galvos["x"].point

\* C7: in an interrupted go_to of the single-axis controller the readback is
\* obtained and the point installed before KeyboardInterrupt is raised, which
\* is the last thing go_to does, and no write goes to the backend after the
\* call that was interrupted.
C7_InterruptRecoveryOrder ==
    (kind = "single" /\ Interrupted) =>
        LET k == last.fault.at
            n == Len(trace)
        IN  /\ n > k
            /\ trace[n] = Raise("KeyboardInterrupt")
            /\ \E i, j \in (k + 1)..(n - 1) :
                 i < j /\ trace[i].op = "read" /\ trace[j].op = "_point"
            /\ \A m \in (k + 1)..n : trace[m].op \notin WriteOps

\* a move interrupted in load_data, before the stream began
C7_Witness ==
    /\ kind = "single"
    /\ Interrupted
    /\ trace[last.fault.at].op = "load_data"
    /\ Where({"start_stream"}) = {}
    /\ Where({"read"}) # {}

\* C8: in a group no stored 1D galvo calls the backend; a call of the group
\* begins at most one write (one update or one stream_setup), exactly one when
\* a backend is attached and the request passes validation, and every update
\* and load_data carries the codes of all declared axes.
C8_GroupOwnsBackend ==
    kind = "group" =>
        /\ \A i \in Where(BackendOps) : trace[i].owner = "GalvoDrivers"
        /\ Cardinality(Where({"update", "stream_setup"})) <= 1
        /\ Cardinality(Where({"load_data"})) <= 1
        /\ Cardinality(Where({"start_stream"})) <= 1
        /\ (/\ open_labjack
            /\ last.op \in {"__init__", "go_to", "reset_pos"}
            /\ result.exc \notin {"KeyError", "InvalidSpeed", "InvalidPosition"})
             => Cardinality(Where({"update", "stream_setup"})) = 1
        /\ \A i \in Where({"update", "load_data"}) : DOMAIN trace[i].arg = AxisSet

\* a streamed group move in which one axis travels and the other holds
C8_Witness ==
    /\ kind = "group"
    /\ last.op = "go_to"
    /\ result.status = "returned"
    /\ \E i \in Where({"load_data"}) :
         /\ Len(trace[i].arg["x"]) = Len(trace[i].arg["z"])
         /\ Len(trace[i].arg["x"]) > 2
         /\ trace[i].arg["x"][1] # trace[i].arg["x"][Len(trace[i].arg["x"])]
         /\ trace[i].arg["z"][1] = trace[i].arg["z"][Len(trace[i].arg["z"])]

\* C9: after a go_to(r, speed) that returns, the position of every controller
\* moved is its origin plus r and its relative position is r.
C9_GoToTargetResolution ==
    (last.op = "go_to" /\ result.status = "returned") =>
        \A ax \in DOMAIN galvos :
            /\ Pos(galvos[ax]) = Origin(galvos[ax]) + last.new_pos[ax]
            /\ RelPos(galvos[ax]) = last.new_pos[ax]

\* a returned move relative to an origin that is not 0
C9_Witness ==
    /\ kind = "single"
    /\ last.op = "go_to"
    /\ result.status = "returned"
    /\ Origin(galvos["x"]) = 1
    /\ last.new_pos["x"] = 1
    /\ Pos(galvos["x"]) = 2

\* C10: right after construction with pos_init = p the position of the
\* controller is p and the first point of its history is the Point at p.
C10_ConstructionSetsInitialPosition ==
    (last.op = "__init__" /\ result.status = "returned") =>
        \A ax \in DOMAIN galvos :
            /\ Pos(galvos[ax]) = last.new_pos[ax]
            /\ galvos[ax].hist[1] = PointPos(last.new_pos[ax])

\* C11: a go_to of the single-axis controller with a negative speed or a nan
\* position fails with the planner's error, calls no backend operation, and
\* leaves the current point, the origin and the history as they were.
C11_ValidationBeforeActing ==
    [][(/\ kind = "single"
        /\ last'.op = "go_to"
        /\ (last'.speed < 0 \/ last'.new_pos["x"] = NaN))
       => /\ result'.status = "raised"
          /\ result'.exc \in {"InvalidSpeed", "InvalidPosition"}
          /\ galvos' = galvos
          /\ \A i \in 1..Len(trace') : trace'[i].op \notin BackendOps \cup {"_point"}]_vars

\* a nan position refused by a controller with a backend that has moved before
C11_Witness ==
    /\ kind = "single"
    /\ open_labjack
    /\ last.op = "go_to"
    /\ last.new_pos["x"] = NaN
    /\ last.speed = 1
    /\ result.exc = "InvalidPosition"
    /\ Len(galvos["x"].hist) > 2
    /\ Pos(galvos["x"]) # Origin(galvos["x"])

\* C12: set_origin and reset_origin, on a controller or on the group, return
\* without an error and without a backend call, leave every current point and
\* every history unchanged, and leave as origin the current position (no
\* argument), the position given for the axis (argument) or 0 (reset_origin);
\* an axis the group's set_origin is given no position for keeps its origin.
C12_OriginCallsChangeOnlyOrigin ==
    [][last'.op \in {"set_origin", "reset_origin"}
       => /\ result'.status = "returned"
          /\ \A i \in 1..Len(trace') : trace'[i].op \notin BackendOps
          /\ DOMAIN galvos' = DOMAIN galvos
          /\ \A ax \in DOMAIN galvos :
               /\ galvos'[ax].point = galvos[ax].point
               /\ galvos'[ax].hist = galvos[ax].hist
               /\ Origin(galvos'[ax]) =
                    IF last'.op = "reset_origin" THEN 0
                    ELSE IF DOMAIN last'.new_pos = {} THEN Pos(galvos[ax])
                    ELSE IF ax \in DOMAIN last'.new_pos THEN last'.new_pos[ax]
                    ELSE Origin(galvos[ax])]_vars

\* a reset_origin of a controller that is away from 0 and had another origin
C12_Witness ==
    /\ kind = "single"
    /\ last.op = "reset_origin"
    /\ Origin(galvos["x"]) = 0
    /\ Pos(galvos["x"]) = 2
    /\ Len(galvos["x"].hist) > 2

\* C13: right after set_origin with no argument the relative position of the
\* controller is 0, whatever moves and origin changes came before.
C13_SetOriginHereGivesZero ==
    (last.op = "set_origin" /\ DOMAIN last.new_pos = {}) =>
        \A ax \in DOMAIN galvos : RelPos(galvos[ax]) = 0

\* set_origin() where an interrupted move left the controller, at the edge of
\* the range of codes
C13_Witness ==
    /\ kind = "single"
    /\ last.op = "set_origin"
    /\ DOMAIN last.new_pos = {}
    /\ Pos(galvos["x"]) = ToPos(0)
    /\ Origin(galvos["x"]) = ToPos(0)
    /\ RelPos(galvos["x"]) = 0

\* C14: after a reset_pos that returns, on a controller or on the group, the
\* relative position of every axis is 0, its position is its origin, and its
\* origin is the one it had before the call.
C14_ResetPosReturnsToOrigin ==
    [][(last'.op = "reset_pos" /\ result'.status = "returned")
       => \A ax \in DOMAIN galvos :
            /\ RelPos(galvos'[ax]) = 0
            /\ Pos(galvos'[ax]) = Origin(galvos'[ax])
            /\ galvos'[ax].origin = galvos[ax].origin]_vars

\* a reset_pos through the backend that brought the controller back from
\* elsewhere to an origin that is not 0
C14_Witness ==
    /\ kind = "single"
    /\ open_labjack
    /\ last.op = "reset_pos"
    /\ result.status = "returned"
    /\ Origin(galvos["x"]) = 1
    /\ Pos(galvos["x"]) = 1
    /\ galvos["x"].hist[Len(galvos["x"].hist)].pos = 2

\* the declared axes the constructor of the group was given no DAC name or no
\* initial position for
MissingConfig ==
    {ax \in {last.axis[i] : i \in 1..Len(last.axis)} :
        ax \notin DOMAIN last.dac_name \/ ax \notin DOMAIN last.new_pos}

\* C15: the construction of a group fails with a KeyError exactly when a
\* declared axis has no entry in dac_name or in pos_init; the error names such
\* an axis, and after it no stored 1D galvo exists and no backend operation
\* was called.
C15_GroupConstructionValidatesFirst ==
    (last.op = "__init__" /\ "dac_name" \in DOMAIN last) =>
        /\ (result.exc = "KeyError") <=> (MissingConfig # {})
        /\ (last.fault = NoFault /\ \A i \in 1..Len(last.axis) : last.axis[i] \in AxisNames)
             => ((result.status = "raised") <=> (MissingConfig # {}))
        /\ MissingConfig # {} =>
             /\ result.status = "raised"
             /\ result.detail \in MissingConfig
             /\ kind = "none"
             /\ galvos = NoDict
             /\ Where(BackendOps \cup {"_point"}) = {}

\* a construction given all of x and no initial position of z
C15_Witness ==
    /\ last.op = "__init__"
    /\ "dac_name" \in DOMAIN last
    /\ last.axis = <<"x", "z">>
    /\ DOMAIN last.dac_name = {"x", "z"}
    /\ DOMAIN last.new_pos = {"x"}
    /\ result.exc = "KeyError"
    /\ result.detail = "z"
    /\ galvos = NoDict

\* C16: with a backend attached, a go_to whose speed is 0, or that asks every
\* axis for the position it holds, calls update once with the code of the
\* destination of every axis and calls no streaming operation; when the backend
\* does not fail it returns the duration 0 and the destination is the current
\* position.
C16_DegenerateMoveIsImmediateWrite ==
    [][(/\ last'.op = "go_to"
        /\ open_labjack
        /\ last'.speed >= 0
        /\ DOMAIN last'.new_pos = DOMAIN galvos
        /\ \A ax \in DOMAIN galvos : last'.new_pos[ax] # NaN
        /\ \/ last'.speed = 0
           \/ \A ax \in DOMAIN galvos :
                Pos(galvos[ax]) = Origin(galvos[ax]) + last'.new_pos[ax])
       => /\ \E i \in 1..Len(trace') :
               /\ trace'[i].op = "update"
               /\ \A ax \in DOMAIN galvos :
                    trace'[i].arg[ax] =
                        <<ToCode(Origin(galvos[ax]) + last'.new_pos[ax])>>
               /\ \A j \in 1..Len(trace') : trace'[j].op = "update" => j = i
          /\ \A i \in 1..Len(trace') :
               trace'[i].op \notin {"stream_setup", "load_data", "start_stream"}
          /\ last'.fault = NoFault
               => /\ result'.status = "returned"
                  /\ result'.t = 0
                  /\ \A ax \in DOMAIN galvos :
                       Pos(galvos'[ax]) = Origin(galvos[ax]) + last'.new_pos[ax]]_vars

\* a go_to with a speed, to the position the controller holds, through the backend
C16_Witness ==
    /\ kind = "single"
    /\ open_labjack
    /\ last.op = "go_to"
    /\ last.speed = 1
    /\ last.fault = NoFault
    /\ result.status = "returned"
    /\ Where({"update"}) # {}
    /\ Pos(galvos["x"]) = 2
    /\ galvos["x"].hist[Len(galvos["x"].hist)] = galvos["x"].point

\* the place of a backend operation in the streaming protocol
Rank(op) ==
    CASE op = "stream_setup" -> 1
      [] op = "load_data" -> 2
      [] op = "start_stream" -> 3
      [] op = "read" -> 4
      [] OTHER -> 0

\* the call of index i was struck by the interrupt while it read the backend
InterruptedRead(i) ==
    /\ last.fault.exc = "KeyboardInterrupt"
    /\ Cardinality({m \in Where(BackendOps) : m <= i}) = last.fault.at
    /\ trace[i].op = "read"

\* start_stream is called only after a stream_setup and a load_data of the
\* same go_to
StreamPrepared ==
    \A s \in Where({"start_stream"}) :
        /\ \E i \in Where({"stream_setup"}) : i < s
        /\ \E i \in Where({"load_data"}) : i < s

\* a controller takes the destination as its current point only when every
\* backend call returned, and then after all of them; in an interrupted go_to
\* every controller holds the readback, and in a failed one none commits
CommitsAfterStream ==
    /\ last.fault = NoFault
         => \A c \in Where({"_point"}), i \in Where(BackendOps) : i < c
    /\ last.fault.exc = "KeyboardInterrupt"
         => \A ax \in DOMAIN galvos : galvos[ax].point = ReadbackPoint(ax)
    /\ last.fault.exc = "IOError" => Where({"_point"}) = {}

\* C17: in a go_to that streams, of the single-axis controller or of the group,
\* the backend operations are called in the order stream_setup, load_data,
\* start_stream, read, each at most once, with no update; start_stream is
\* called only after stream_setup and load_data; and the destination becomes
\* the current point only after start_stream and read have returned without
\* an interrupt.  The read that the interrupt recovery makes when the
\* interrupt struck the read itself is counted with the recovery, not with
\* the protocol.
C17_StreamingProtocolOrder ==
    (kind # "none" /\ InGoTo /\ Where({"stream_setup", "load_data", "start_stream"}) # {}) =>
        /\ \A i, j \in Where(BackendOps) :
             i < j => \/ Rank(trace[i].op) < Rank(trace[j].op)
                      \/ InterruptedRead(i) /\ trace[j].op = "read" /\ j = i + 1
        /\ Where({"update"}) = {}
        /\ StreamPrepared
        /\ CommitsAfterStream

\* C18: the origin of a controller changes only in set_origin and reset_origin;
\* a go_to or reset_pos, completed, interrupted or failed, leaves it as it was,
\* also when set_origin() had stored the current point itself as the origin.
C18_MovesKeepOrigin ==
    [][\A ax \in DOMAIN galvos \cap DOMAIN galvos' :
         /\ galvos'[ax].origin # galvos[ax].origin
              => last'.op \in {"set_origin", "reset_origin"}
         /\ InGoTo' => galvos'[ax].origin = galvos[ax].origin]_vars

\* an interrupted move away from the origin that set_origin() took from the
\* current point
C18_Witness ==
    /\ kind = "single"
    /\ last.op = "go_to"
    /\ Interrupted
    /\ Origin(galvos["x"]) = 2
    /\ galvos["x"].hist[Len(galvos["x"].hist)] = galvos["x"].origin
    /\ Pos(galvos["x"]) # 2

\* C19: a go_to without a backend that returns, returns the position the
\* controller holds right after the call, for every axis of a group, and the
\* duration 0.
C19_GoToReturnsActualPosition ==
    (kind # "none" /\ last.op = "go_to" /\ ~open_labjack /\ result.status = "returned") =>
        /\ result.pos = DriversPos(galvos)
        /\ result.t = 0

====
